---------------------------- MODULE Spec2Model ----------------------------
(***************************************************************************)
(* Model of scripts/prompt_translator.py: the prompt translation pipeline  *)
(* of the "Translate prompt to english" script.                            *)
(*                                                                         *)
(* A text is a sequence of characters; a character is a one-element TLA+   *)
(* string.  ASCII characters stand for themselves ("a", "+", "<", ...).    *)
(* A character outside ASCII is written by its code point, "U+FF0C" for    *)
(* the full-width comma, "U+732B" for a CJK letter.  Python offsets are    *)
(* kept 0-based and half-open, as the code uses them; a negative offset    *)
(* counts from the end of the text, as in Python.                          *)
(***************************************************************************)
EXTENDS Integers, Sequences, FiniteSets, TLC

VARIABLES
    p,                             \* the host's request object (StableDiffusionProcessing)
    csv,                           \* content of translations.csv: source text -> target text
    is_active,                     \* Script.is_active
    has_translator,                \* hasattr(self, "translator")
    is_negative_translate_active,  \* Script.is_negative_translate_active
    phase,                         \* "idle" before the call, then how the call ended
    obs                            \* what the last call did: arguments, result, calls made

vars == <<p, csv, is_active, has_translator, is_negative_translate_active, phase, obs>>

---------------------------------------------------------------------------
(* Bounds of the model *)

MaxRunLen == 4
MaxTextLen == 4
MaxBatch == 3
MaxNegBatch == 2

---------------------------------------------------------------------------
(* Texts and Python's string operations *)

Min(a, b) == IF a < b THEN a ELSE b
Max(a, b) == IF a > b THEN a ELSE b

Texts(alphabet, n) == UNION {[1..k -> alphabet] : k \in 0..n}

\* Characters outside ASCII that the model uses, by code point.
FullWidth ==
    {"U+FF0C", "U+3002", "U+FF01", "U+FF1F", "U+FF1B", "U+FF1A", "U+2018",
     "U+2019", "U+201C", "U+201D", "U+FF08", "U+FF09", "U+3010", "U+3011"}
NonAscii == FullWidth \cup {"U+732B", "U+72D7", "U+3000"}

\* str.isascii, str.isspace and the regex class \s, on one character
isascii(c) == c \notin NonAscii
isspace(c) == c \in {" ", "U+3000"}

\* text[j] for a Python index j with -len <= j < len
PyIndex(text, j) == IF j >= 0 THEN text[j + 1] ELSE text[Len(text) + j + 1]

\* text[a:b] and text[a:] with Python's clamping of the two offsets
PyClamp(text, a) == IF a < 0 THEN Max(a + Len(text), 0) ELSE Min(a, Len(text))
SliceBetween(text, lo, hi) == IF lo < hi THEN SubSeq(text, lo + 1, hi) ELSE <<>>
PySlice(text, a, b) == SliceBetween(text, PyClamp(text, a), PyClamp(text, b))
PySliceFrom(text, a) == PySlice(text, a, Len(text))

\* text.startswith(c) and text.endswith(c) for a one-character c
startswith(text, c) == Len(text) > 0 /\ text[1] = c
endswith(text, c) == Len(text) > 0 /\ text[Len(text)] = c

\* whether the character at 0-based offset i is c
At(text, i, c) == i < Len(text) /\ text[i + 1] = c

\* end of the longest run of \s, and of "+", from 0-based offset i
RECURSIVE SkipSpaces(_, _)
SkipSpaces(text, i) ==
    IF i < Len(text) /\ isspace(text[i + 1]) THEN SkipSpaces(text, i + 1) ELSE i
RECURSIVE SkipPluses(_, _)
SkipPluses(text, i) ==
    IF At(text, i, "+") THEN SkipPluses(text, i + 1) ELSE i

---------------------------------------------------------------------------
(* remove_unnecessary_spaces: re.sub(r"\)\s*\+\+|\)\+\+\s*", ")++", text) *)

TwoPlusesAt(text, k) == IF At(text, k, "+") /\ At(text, k + 1, "+") THEN k + 2 ELSE -1

\* end offset of a match of the first alternative \)\s*\+\+ at i, or -1
MatchTighten1(text, i) ==
    IF At(text, i, ")") THEN TwoPlusesAt(text, SkipSpaces(text, i + 1)) ELSE -1

\* end offset of a match of the second alternative \)\+\+\s* at i, or -1
MatchTighten2(text, i) ==
    IF At(text, i, ")") /\ At(text, i + 1, "+") /\ At(text, i + 2, "+")
    THEN SkipSpaces(text, i + 3)
    ELSE -1

\* the regex tries its alternatives in order at each offset
FirstAlternative(e1, e2) == IF e1 >= 0 THEN e1 ELSE e2
MatchTighten(text, i) == FirstAlternative(MatchTighten1(text, i), MatchTighten2(text, i))

\* re.sub from offset i on, out being the text written so far
SubStep(text, i, out, e) ==
    IF e >= 0 THEN [i |-> e, out |-> out \o <<")", "+", "+">>]
    ELSE [i |-> i + 1, out |-> Append(out, text[i + 1])]
RECURSIVE SubTighten(_, _)
SubTighten(text, s) ==
    IF s.i >= Len(text) THEN s.out
    ELSE SubTighten(text, SubStep(text, s.i, s.out, MatchTighten(text, s.i)))

remove_unnecessary_spaces(text) == SubTighten(text, [i |-> 0, out |-> <<>>])

---------------------------------------------------------------------------
(* extract_plus_positions *)

\* pattern.finditer(text) for r'\++': the matches [start, end), left to right
MatchFrom(i, e) == [start |-> i, end |-> e]
RECURSIVE FindPlusMatches(_, _)
FindPlusMatches(text, s) ==
    IF s.i >= Len(text) THEN s.matches
    ELSE IF text[s.i + 1] = "+"
         THEN FindPlusMatches(text,
                  [i |-> SkipPluses(text, s.i),
                   matches |-> Append(s.matches, MatchFrom(s.i, SkipPluses(text, s.i)))])
         ELSE FindPlusMatches(text, [s EXCEPT !.i = @ + 1])

finditer(text) == FindPlusMatches(text, [i |-> 0, matches |-> <<>>])

\* j = last_match_end - 1; while text[j] == "+": j -= 1; j += 1
\* text[j] raises IndexError once j < -len(text)
RECURSIVE WalkBack(_, _)
WalkBack(text, j) ==
    IF j < 0 - Len(text) THEN [err |-> "IndexError", j |-> j]
    ELSE IF PyIndex(text, j) = "+" THEN WalkBack(text, j - 1)
         ELSE [err |-> "none", j |-> j + 1]

\* positions.append([j, last_match_end, last_match_end - j])
AppendWalked(st, w) ==
    IF w.err # "none" THEN [st EXCEPT !.err = w.err]
    ELSE [st EXCEPT !.positions =
             Append(@, <<w.j, st.last_match_end, st.last_match_end - w.j>>)]
AppendPosition(text, st) == AppendWalked(st, WalkBack(text, st.last_match_end - 1))

\* last_match_end = match.end(), unless the walk raised
AfterMatch(match, st) ==
    IF st.err # "none" THEN st ELSE [st EXCEPT !.last_match_end = match.end]

\* the for loop over the matches; last_match_end = -1 stands for None
RECURSIVE PlusLoop(_, _, _, _)
PlusLoop(text, matches, k, st) ==
    IF k > Len(matches) \/ st.err # "none" THEN st
    ELSE PlusLoop(text, matches, k + 1,
             AfterMatch(matches[k],
                 IF st.last_match_end # -1 /\ matches[k].start # st.last_match_end
                 THEN AppendPosition(text, st)
                 ELSE st))

\* "if last_match_end is not None and last_match_end == len(text)", and the return
FinalPosition(text, st) ==
    IF st.err = "none" /\ st.last_match_end # -1 /\ st.last_match_end = Len(text)
    THEN AppendPosition(text, st)
    ELSE st
Returned(st) == [err |-> st.err, positions |-> st.positions]

extract_plus_positions(text) ==
    Returned(FinalPosition(text,
        PlusLoop(text, finditer(text), 1,
                 [positions |-> <<>>, last_match_end |-> -1, err |-> "none"])))

---------------------------------------------------------------------------
(* match_pluses and post_process_prompt *)

\* the body of "for in_, out_ in zip(in_positions, out_positions)"
RECURSIVE ZipLoop(_, _, _, _, _, _)
ZipLoop(original_text, translated_text, in_positions, out_positions, k, st) ==
    IF k > Min(Len(in_positions), Len(out_positions)) THEN st
    ELSE ZipLoop(original_text, translated_text, in_positions, out_positions, k + 1,
             [out_vals |-> st.out_vals
                  \o PySlice(translated_text, st.out_current_pos, out_positions[k][1])
                  \o PySlice(original_text, in_positions[k][1], in_positions[k][2]),
              out_current_pos |-> out_positions[k][2],
              diags |-> IF in_positions[k][3] # out_positions[k][3]
                        THEN st.diags + 1 ELSE st.diags])

\* out_vals.append(translated_text[out_current_pos:]); "".join(out_vals)
JoinOut(translated_text, st) ==
    [err |-> "none",
     text |-> st.out_vals \o PySliceFrom(translated_text, st.out_current_pos),
     diags |-> st.diags]

\* result: err, the output text, and the number of "detected different + count" lines
MatchWith(original_text, translated_text, in_r, out_r) ==
    IF in_r.err # "none" THEN [err |-> in_r.err, text |-> <<>>, diags |-> 0]
    ELSE IF out_r.err # "none" THEN [err |-> out_r.err, text |-> <<>>, diags |-> 0]
    ELSE JoinOut(translated_text,
             IF Len(in_r.positions) = Len(out_r.positions)
             THEN ZipLoop(original_text, translated_text,
                          in_r.positions, out_r.positions, 1,
                          [out_vals |-> <<>>, out_current_pos |-> 0, diags |-> 0])
             ELSE [out_vals |-> <<>>, out_current_pos |-> 0, diags |-> 0])

match_pluses(original_text, translated_text) ==
    MatchWith(original_text, translated_text,
              extract_plus_positions(original_text),
              extract_plus_positions(translated_text))

post_process_prompt(original, translated) ==
    match_pluses(original, remove_unnecessary_spaces(translated))

---------------------------------------------------------------------------
(* MBartTranslator.translate, load_csv, custom_translate, Script.transfer *)

\* MBartTranslator.supported_languages
supported_languages ==
    {"ar_AR", "de_DE", "en_XX", "es_XX", "fr_XX", "hi_IN", "it_IT", "ja_XX",
     "ko_XX", "pt_XX", "ru_RU", "zh_XX", "af_ZA", "bn_BD", "bs_XX", "ca_XX",
     "cs_CZ", "da_XX", "el_GR", "et_EE", "fa_IR", "fi_FI", "gu_IN", "he_IL",
     "hi_XX", "hr_HR", "hu_HU", "id_ID", "is_IS", "jv_XX", "ka_GE", "kk_XX",
     "km_KH", "kn_IN", "ko_KR", "lo_LA", "lt_LT", "lv_LV", "mk_MK", "ml_IN",
     "mr_IN", "ms_MY", "ne_NP", "nl_XX", "no_XX", "pl_XX", "ro_RO", "si_LK",
     "sk_SK", "sl_SI", "sq_AL", "sr_XX", "sv_XX", "sw_TZ", "ta_IN", "te_IN",
     "th_TH", "tl_PH", "tr_TR", "uk_UA", "ur_PK", "vi_VN", "war_PH", "yue_XX",
     "zh_CN", "zh_TW"}

\* Variant of translate that does not check the input language.
translateUnchecked(text, input_language, output_language, answer) ==
    IF output_language \notin supported_languages
    THEN [err |-> "ValueError", text |-> <<>>]
    ELSE [err |-> "none", text |-> answer]

\* The model generation is opaque: `answer` is whatever it decodes for this call.
translate(text, input_language, output_language, answer) ==
    IF input_language \notin supported_languages
    THEN [err |-> "ValueError", text |-> <<>>]
    ELSE IF output_language \notin supported_languages
         THEN [err |-> "ValueError", text |-> <<>>]
         ELSE [err |-> "none", text |-> answer]

\* dict(csv.reader(f)) of a readable two-column file
load_csv(csv_file) == csv_file

\* found = FALSE stands for the None result
custom_translate(text, cache) ==
    IF text \in DOMAIN cache THEN [found |-> TRUE, text |-> cache[text]]
    ELSE [found |-> FALSE, text |-> <<>>]

\* m is the run so far: the translator's answers still to come (tape), the
\* transfer calls made, the calls of translator.translate made, the slots that
\* entered TRANSLATING, the number of reads of translations.csv, the diagnostics
\* printed and the exception raised, if any.  `at` says where the fragment lies
\* (the prompt and the fragment's offset in it); the code does not read it.
FreshRun(tape) ==
    [tape |-> tape, transfers |-> <<>>, translations |-> <<>>, entered |-> <<>>,
     loads |-> 0, diags |-> 0, err |-> "none", starved |-> FALSE]

\* cache = load_csv(csv_path)
Loaded(m) == [m EXCEPT !.loads = @ + 1]

NextAnswer(m) == IF m.tape = <<>> THEN <<>> ELSE Head(m.tape)

\* en_prompt = self.translator.translate(text, ln_code, "en_XX"); return en_prompt
Translated(text, ln_code, m, en_prompt) ==
    IF en_prompt.err # "none"
    THEN [text |-> <<>>,
          m |-> [m EXCEPT !.err = en_prompt.err,
                          !.translations = Append(@, [text |-> text, ln_code |-> ln_code])]]
    ELSE [text |-> en_prompt.text,
          m |-> [m EXCEPT !.translations = Append(@, [text |-> text, ln_code |-> ln_code]),
                          !.tape = IF @ = <<>> THEN @ ELSE Tail(@),
                          !.starved = @ \/ m.tape = <<>>]]

\* Variant of Resolve that asks the translator whatever the cache holds.
ResolveByTranslator(text, ln_code, m, result) ==
    Translated(text, ln_code, m, translate(text, ln_code, "en_XX", NextAnswer(m)))

\* "if result is not None: return result", else the translator
Resolve(text, ln_code, m, result) ==
    IF result.found THEN [text |-> result.text, m |-> m]
    ELSE Translated(text, ln_code, m, translate(text, ln_code, "en_XX", NextAnswer(m)))

\* the record of one call of transfer: its arguments, what it returned, whether
\* it called the translator
CallLogged(text, ln_code, m, at, r) ==
    [text |-> r.text,
     m |-> [r.m EXCEPT !.transfers =
               Append(@, [prompt |-> at.prompt, start |-> at.start, text |-> text,
                          ln_code |-> ln_code, ret |-> r.text, raised |-> r.m.err,
                          invoked |-> Len(r.m.translations) > Len(m.translations)])]]

transfer(text, ln_code, m, at) ==
    CallLogged(text, ln_code, m, at,
        Resolve(text, ln_code, Loaded(m), custom_translate(text, load_csv(csv))))

---------------------------------------------------------------------------
(* Script.is_english and Script.process_text *)

is_english(text) == \A i \in 1..Len(text) : isascii(text[i]) \/ isspace(text[i])

\* str.maketrans of the fourteen full-width punctuation marks
PunctuationMap(c) ==
    CASE c = "U+FF0C" -> ","  [] c = "U+3002" -> "."  [] c = "U+FF01" -> "!"
      [] c = "U+FF1F" -> "?"  [] c = "U+FF1B" -> ";"  [] c = "U+FF1A" -> ":"
      [] c = "U+2018" -> "'"  [] c = "U+2019" -> "'"  [] c = "U+201C" -> "\""
      [] c = "U+201D" -> "\"" [] c = "U+FF08" -> "("  [] c = "U+FF09" -> ")"
      [] c = "U+3010" -> "["  [] c = "U+3011" -> "]"  [] OTHER -> c

normalize_punctuation(text) == [i \in 1..Len(text) |-> PunctuationMap(text[i])]

\* offset of the first occurrence of character c at or after offset i, or -1
RECURSIVE Find(_, _, _)
Find(text, c, i) ==
    IF i >= Len(text) THEN -1
    ELSE IF text[i + 1] = c THEN i ELSE Find(text, c, i + 1)

\* re.split(r'(<[^>]*>)', text): literal, directive, literal, ..., literal.
\* s.i is the offset the scan has reached, s.lit where the current literal began;
\* close is the offset of the ">" ending a match that begins at s.i, or -1.
SplitStep(text, s, close) ==
    IF close >= 0
    THEN [i |-> close + 1, lit |-> close + 1,
          parts |-> s.parts \o <<PySlice(text, s.lit, s.i), PySlice(text, s.i, close + 1)>>]
    ELSE [s EXCEPT !.i = @ + 1]
RECURSIVE SplitDirectives(_, _)
SplitDirectives(text, s) ==
    IF s.i >= Len(text) THEN Append(s.parts, PySlice(text, s.lit, Len(text)))
    ELSE SplitDirectives(text,
             SplitStep(text, s,
                 IF text[s.i + 1] = "<" THEN Find(text, ">", s.i + 1) ELSE -1))

re_split(text) == SplitDirectives(text, [i |-> 0, lit |-> 0, parts |-> <<>>])

\* part.split(','), each segment with its offset in the part
SegmentTo(part, i, c) ==
    [text |-> PySlice(part, i, IF c < 0 THEN Len(part) ELSE c), start |-> i,
     next |-> IF c < 0 THEN -1 ELSE c + 1]
RECURSIVE SplitCommas(_, _, _)
SplitCommas(part, segments, seg) ==
    IF seg.next < 0 THEN Append(segments, seg)
    ELSE SplitCommas(part, Append(segments, seg),
                     SegmentTo(part, seg.next, Find(part, ",", seg.next)))

split(part) == SplitCommas(part, <<>>, SegmentTo(part, 0, Find(part, ",", 0)))

\* Variant of IsDirectivePart with the closing bracket mistyped.
IsDirectivePartMistyped(part) == startswith(part, "<") /\ endswith(part, "<")

\* part.startswith('<') and part.endswith('>')
IsDirectivePart(part) == startswith(part, "<") /\ endswith(part, ">")

\* ','.join(texts)
RECURSIVE JoinCommas(_, _, _)
JoinCommas(texts, k, out) ==
    IF k > Len(texts) THEN out
    ELSE JoinCommas(texts, k + 1, IF k = 1 THEN texts[k] ELSE out \o <<",">> \o texts[k])

join(texts) == JoinCommas(texts, 1, <<>>)

\* the list comprehension over part.split(','): acc holds the translated segments
\* so far and the run
Collected(acc, r) == [texts |-> Append(acc.texts, r.text), m |-> r.m]

TranslateSegment(segment, ln_code, acc, at) ==
    Collected(acc,
        IF ~is_english(segment.text)
        THEN transfer(segment.text, ln_code, acc.m, [at EXCEPT !.start = @ + segment.start])
        ELSE [text |-> segment.text, m |-> acc.m])

RECURSIVE TranslateSegments(_, _, _, _, _)
TranslateSegments(segments, k, ln_code, acc, at) ==
    IF k > Len(segments) \/ acc.m.err # "none" THEN acc
    ELSE TranslateSegments(segments, k + 1, ln_code,
                           TranslateSegment(segments[k], ln_code, acc, at), at)

\* translated_parts.append(...): acc holds the output so far, the offset of the
\* next part in the normalized text, and the run
Joined(t) == [text |-> IF t.m.err = "none" THEN join(t.texts) ELSE <<>>, m |-> t.m]

AppendPart(acc, part, r) ==
    [text |-> acc.text \o r.text, off |-> acc.off + Len(part), m |-> r.m]

TranslatePart(part, ln_code, acc, prompt) ==
    AppendPart(acc, part,
        IF IsDirectivePart(part) THEN [text |-> part, m |-> acc.m]
        ELSE Joined(TranslateSegments(split(part), 1, ln_code,
                                      [texts |-> <<>>, m |-> acc.m],
                                      [prompt |-> prompt, start |-> acc.off])))

RECURSIVE TranslateParts(_, _, _, _, _)
TranslateParts(parts, k, ln_code, acc, prompt) ==
    IF k > Len(parts) \/ acc.m.err # "none" THEN acc
    ELSE TranslateParts(parts, k + 1, ln_code,
                        TranslatePart(parts[k], ln_code, acc, prompt), prompt)

process_text(text, ln_code, m) ==
    TranslateParts(re_split(normalize_punctuation(text)), 1, ln_code,
                   [text |-> <<>>, off |-> 0, m |-> m], text)

---------------------------------------------------------------------------
(* Script.get_prompts and Script.process *)

\* Python's None where a text is expected, and the empty string
None == <<"None">>
Empty == <<>>

get_prompts(request) ==
    [original_prompts |->
         IF Len(request.all_prompts) > 0 THEN request.all_prompts
         ELSE <<request.prompt>>,
     original_negative_prompts |->
         IF Len(request.all_negative_prompts) > 0 THEN request.all_negative_prompts
         ELSE <<request.negative_prompt>>]

\* translated_prompt = post_process_prompt(original_prompt, translated_prompt)
Cleaned(m, c) ==
    IF c.err # "none" THEN [text |-> <<>>, m |-> [m EXCEPT !.err = c.err]]
    ELSE [text |-> c.text, m |-> [m EXCEPT !.diags = @ + c.diags]]

PostProcess(original_prompt, t) ==
    IF t.m.err # "none" THEN [text |-> <<>>, m |-> t.m]
    ELSE Cleaned(t.m, post_process_prompt(original_prompt, t.text))

\* One pass through TRANSLATING: process_text, then post_process_prompt.
TranslatePrompt(original_prompt, ln_code, m) ==
    PostProcess(original_prompt, process_text(original_prompt, ln_code, m))

\* Variant of NeedsTranslating without the memo: every slot is translated.
NeedsTranslatingAlways(previous_prompt, original_prompt) == TRUE

\* if previous_prompt != original_prompt
NeedsTranslating(previous_prompt, original_prompt) == previous_prompt # original_prompt

Entered(m, kind, k, prompt) ==
    [m EXCEPT !.entered = Append(@, [kind |-> kind, slot |-> k, prompt |-> prompt])]

Memoized(st, original_prompt, r) ==
    [translated |-> Append(st.translated, r.text),
     previous_prompt |-> original_prompt,
     previous_translated_prompt |-> r.text,
     m |-> r.m]

\* the body of the loop for slot k
PromptStep(original_prompt, k, kind, ln_code, st) ==
    IF NeedsTranslating(st.previous_prompt, original_prompt)
    THEN Memoized(st, original_prompt,
             TranslatePrompt(original_prompt, ln_code,
                             Entered(st.m, kind, k, original_prompt)))
    ELSE [st EXCEPT !.translated = Append(@, st.previous_translated_prompt)]

\* "for original_prompt in original_prompts" (kind "prompt") and "for
\* negative_prompt in original_negative_prompts" (kind "negative"), from slot k on
RECURSIVE PromptLoop(_, _, _, _, _)
PromptLoop(prompts, k, kind, ln_code, st) ==
    IF k > Len(prompts) \/ st.m.err # "none" THEN st
    ELSE PromptLoop(prompts, k + 1, kind, ln_code,
                    PromptStep(prompts[k], k, kind, ln_code, st))

LoopStart(m) ==
    [translated |-> <<>>, previous_prompt |-> Empty,
     previous_translated_prompt |-> Empty, m |-> m]

\* if p.negative_prompt != '' and self.is_negative_translate_active
DoNegative(request, negative_active) ==
    request.negative_prompt # Empty /\ negative_active

\* Variant of Substituted that writes the main prompts into p as soon as the
\* main loop is through, before the negative prompts are translated.
SubstitutedEagerly(request, do_negative, main, neg) ==
    IF main.m.err # "none" THEN [p |-> request, m |-> neg.m]
    ELSE [p |-> [prompt |-> main.translated[1],
                 prompt_for_display |-> main.translated[1],
                 all_prompts |-> main.translated,
                 negative_prompt |-> IF do_negative /\ neg.m.err = "none"
                                     THEN neg.translated[1]
                                     ELSE request.negative_prompt,
                 all_negative_prompts |-> IF do_negative /\ neg.m.err = "none"
                                          THEN neg.translated
                                          ELSE request.all_negative_prompts],
          m |-> neg.m]

\* The assignments to p that end process.  An exception leaves the request as it
\* was: every assignment comes after both loops.
Substituted(request, do_negative, main, neg) ==
    IF neg.m.err # "none" THEN [p |-> request, m |-> neg.m]
    ELSE [p |-> [prompt |-> main.translated[1],
                 prompt_for_display |-> main.translated[1],
                 all_prompts |-> main.translated,
                 negative_prompt |-> IF do_negative THEN neg.translated[1]
                                     ELSE request.negative_prompt,
                 all_negative_prompts |-> IF do_negative THEN neg.translated
                                          ELSE request.all_negative_prompts],
          m |-> neg.m]

NegativeLoop(request, ln_code, negative_active, main) ==
    Substituted(request, DoNegative(request, negative_active), main,
        IF DoNegative(request, negative_active) /\ main.m.err = "none"
        THEN PromptLoop(get_prompts(request).original_negative_prompts, 1, "negative",
                        ln_code, LoopStart(main.m))
        ELSE main)

\* The body of process under "if hasattr(self, 'translator') and self.is_active".
process(request, ln_code, negative_active, m) ==
    NegativeLoop(request, ln_code, negative_active,
        PromptLoop(get_prompts(request).original_prompts, 1, "prompt", ln_code,
                   LoopStart(m)))

---------------------------------------------------------------------------
(* The inputs of the model *)

\* What the opaque model may decode for a fragment: a word, an emphasis mark
\* alone, a word between emphasis marks.
TransOut == {<<"a">>, <<"+">>, <<"+", "a", "+">>}

\* Source language codes the host may declare: one of the supported set and one
\* outside it.
SourceCodes == {"zh_XX", "tlh_XX"}

\* Contents of translations.csv: no entry, or one curated phrase.
Caches == {[t \in {} |-> <<>>], [t \in {<<"U+732B">>} |-> <<"k">>]}

\* Prompts of a batch request: empty, an English word, a Chinese word, an
\* emphasis mark alone, two Chinese words around a full-width comma.
PromptPool == {<<>>, <<"a">>, <<"U+732B">>, <<"+">>, <<"U+732B", "U+FF0C", "U+72D7">>}
NegativePool == {<<>>, <<"U+732B">>}

\* Characters of the texts given to the emphasis-run functions.
RunAlphabet == {"+", "a", ")", " "}
RunTexts == Texts(RunAlphabet, MaxRunLen)

\* Characters of a single-prompt request.
TextAlphabet == {"<", ">", "U+FF0C", "U+732B", "a", "+"}

Batches(pool, n) == UNION {[1..k -> pool] : k \in 1..n}

NegativeSides ==
    {[negative_prompt |-> b[1], all_negative_prompts |-> b] :
        b \in Batches(NegativePool, MaxNegBatch)}
    \cup {[negative_prompt |-> t, all_negative_prompts |-> <<>>] : t \in NegativePool}

Request(prompt, all_prompts, negative_side) ==
    [prompt |-> prompt, prompt_for_display |-> None, all_prompts |-> all_prompts,
     negative_prompt |-> negative_side.negative_prompt,
     all_negative_prompts |-> negative_side.all_negative_prompts]

\* A batch of prompts from the pool, with negative prompts.
BatchRequests ==
    {Request(b[1], b, n) : b \in Batches(PromptPool, MaxBatch), n \in NegativeSides}

\* One prompt over the text alphabet, all_prompts not yet filled, no negative prompt.
TextRequests ==
    {Request(t, <<>>, [negative_prompt |-> Empty, all_negative_prompts |-> <<>>]) :
        t \in Texts(TextAlphabet, MaxTextLen)}

\* The number of answers the opaque model is asked for by a run of process that
\* nothing aborts: the fragments of the slots entering TRANSLATING that are
\* neither English nor in translations.csv.
Invocations(t) == Len(t.m.translations)

RECURSIVE CountAnswers(_, _, _)
CountAnswers(prompts, k, n) ==
    IF k > Len(prompts) THEN n
    ELSE CountAnswers(prompts, k + 1,
             IF NeedsTranslating(IF k = 1 THEN Empty ELSE prompts[k - 1], prompts[k])
             THEN n + Invocations(process_text(prompts[k], "en_XX", FreshRun(<<>>)))
             ELSE n)

AnswersNeeded(request, negative_active) ==
    CountAnswers(get_prompts(request).original_prompts, 1,
        IF DoNegative(request, negative_active)
        THEN CountAnswers(get_prompts(request).original_negative_prompts, 1, 0)
        ELSE 0)

---------------------------------------------------------------------------
(* The state machine: one generation request *)

NoCall == [op |-> "none"]

InitScript ==
    /\ csv \in Caches
    /\ is_active = FALSE
    /\ has_translator = FALSE
    /\ is_negative_translate_active = FALSE
    /\ phase = "idle"
    /\ obs = NoCall

Init == InitScript /\ p \in BatchRequests

InitText == InitScript /\ p \in TextRequests

\* Script.set_active(active)
SetActive ==
    /\ phase = "idle"
    /\ \E active \in BOOLEAN :
          /\ is_active' = active
          /\ has_translator' = TRUE
    /\ UNCHANGED <<p, csv, is_negative_translate_active, phase, obs>>

\* Script.set_negative_translate_active(negative_translate_active)
SetNegativeTranslateActive ==
    /\ phase = "idle"
    /\ \E negative_translate_active \in BOOLEAN :
          is_negative_translate_active' = negative_translate_active
    /\ UNCHANGED <<p, csv, is_active, has_translator, phase, obs>>

\* what a call of process leaves behind
ProcessReturns(ln_code, r) ==
    /\ p' = r.p
    /\ phase' = IF r.m.err = "none" THEN "done" ELSE r.m.err
    /\ obs' = [op |-> "process", request |-> p, ln_code |-> ln_code,
               negative_active |-> is_negative_translate_active,
               run |-> [r.m EXCEPT !.tape = <<>>]]

\* Script.process(p, language) with the script enabled
Process ==
    /\ phase = "idle"
    /\ has_translator /\ is_active
    /\ \E ln_code \in SourceCodes :
       \E tape \in [1..AnswersNeeded(p, is_negative_translate_active) -> TransOut] :
          ProcessReturns(ln_code,
              process(p, ln_code, is_negative_translate_active, FreshRun(tape)))
    /\ UNCHANGED <<csv, is_active, has_translator, is_negative_translate_active>>

\* Script.process(p, language) with the script disabled: nothing is done
ProcessDisabled ==
    /\ phase = "idle"
    /\ ~(has_translator /\ is_active)
    /\ phase' = "done"
    /\ obs' = [op |-> "skipped"]
    /\ UNCHANGED <<p, csv, is_active, has_translator, is_negative_translate_active>>

Next == SetActive \/ SetNegativeTranslateActive \/ Process \/ ProcessDisabled

Spec == Init /\ [][Next]_vars

TextSpec == InitText /\ [][Next]_vars

---------------------------------------------------------------------------
(* The emphasis-run functions on their own: one call on texts over RunAlphabet *)

InitRuns ==
    /\ p = Request(Empty, <<>>, [negative_prompt |-> Empty, all_negative_prompts |-> <<>>])
    /\ csv = [t \in {} |-> <<>>]
    /\ is_active = FALSE
    /\ has_translator = FALSE
    /\ is_negative_translate_active = FALSE
    /\ phase = "idle"
    /\ obs = NoCall

\* extract_plus_positions(text)
ExtractPlusPositions ==
    /\ phase = "idle"
    /\ \E text \in RunTexts :
          obs' = [op |-> "extract_plus_positions", text |-> text,
                  ret |-> extract_plus_positions(text)]
    /\ phase' = "returned"
    /\ UNCHANGED <<p, csv, is_active, has_translator, is_negative_translate_active>>

\* post_process_prompt(original, translated)
PostProcessPrompt ==
    /\ phase = "idle"
    /\ \E original \in RunTexts, translated \in RunTexts :
          obs' = [op |-> "post_process_prompt", original |-> original,
                  translated |-> translated,
                  ret |-> post_process_prompt(original, translated)]
    /\ phase' = "returned"
    /\ UNCHANGED <<p, csv, is_active, has_translator, is_negative_translate_active>>

NextRuns == ExtractPlusPositions \/ PostProcessPrompt

RunsSpec == InitRuns /\ [][NextRuns]_vars

---------------------------------------------------------------------------
(* Properties.  What the properties speak of is defined here from the text      *)
(* alone, not from the functions above.                                         *)

\* [s, e) is a maximal contiguous run of "+" in text (0-based, half-open)
IsRun(text, s, e) ==
    /\ 0 <= s /\ s < e /\ e <= Len(text)
    /\ \A i \in s..(e - 1) : text[i + 1] = "+"
    /\ (s = 0 \/ text[s] # "+")
    /\ (e = Len(text) \/ text[e + 1] # "+")

MaximalRuns(text) ==
    {r \in (0..Len(text)) \X (0..Len(text)) : IsRun(text, r[1], r[2])}

RunCount(text) == Cardinality(MaximalRuns(text))

\* the k-th run from the left
KthRun(text, k) ==
    CHOOSE r \in MaximalRuns(text) :
        Cardinality({q \in MaximalRuns(text) : q[1] < r[1]}) = k - 1

\* [start, end, length] of every run, left to right
RunList(text) ==
    [k \in 1..RunCount(text) |->
        <<KthRun(text, k)[1], KthRun(text, k)[2], KthRun(text, k)[2] - KthRun(text, k)[1]>>]

\* text with its k-th run replaced by the k-th run of original, for every k,
\* from run k and offset pos on
RECURSIVE Spliced(_, _, _, _)
Spliced(original, text, k, pos) ==
    IF k > RunCount(text) THEN SubSeq(text, pos + 1, Len(text))
    ELSE SubSeq(text, pos + 1, KthRun(text, k)[1])
         \o SubSeq(original, KthRun(original, k)[1] + 1, KthRun(original, k)[2])
         \o Spliced(original, text, k + 1, KthRun(text, k)[2])

\* character i (1-based) of text lies in a directive span: a "<" up to and
\* including the next ">"
InDirective(text, i) ==
    \E j \in 1..i : \E k \in i..Len(text) :
        /\ text[j] = "<"
        /\ text[k] = ">"
        /\ \A n \in j..(k - 1) : text[n] # ">"

\* the directive spans of text
DirectiveSpans(text) ==
    {SubSeq(text, j, k) : <<j, k>> \in
        {jk \in (1..Len(text)) \X (1..Len(text)) :
            /\ jk[1] < jk[2]
            /\ text[jk[1]] = "<"
            /\ text[jk[2]] = ">"
            /\ \A n \in jk[1]..(jk[2] - 1) : text[n] # ">"
            /\ (jk[1] = 1 \/ ~InDirective(text, jk[1] - 1) \/ text[jk[1] - 1] = ">")}}

IsSubstring(d, text) ==
    \E i \in 0..(Len(text) - Len(d)) : SubSeq(text, i + 1, i + Len(d)) = d

Ran == obs.op = "process"
Originals == get_prompts(obs.request).original_prompts
NegativeOriginals == get_prompts(obs.request).original_negative_prompts
NegativeDone == DoNegative(obs.request, obs.negative_active)
Transfers == obs.run.transfers
EnteredLog == obs.run.entered

\* C1 (as claimed): every directive span of the prompt appears unchanged in the
\* output of the pipeline.
C1_DirectivesPreserved ==
    (Ran /\ phase = "done") =>
        \A d \in DirectiveSpans(Originals[1]) : IsSubstring(d, p.all_prompts[1])

\* One transfer call was given a whole comma-delimited fragment of literal
\* text: its characters are the punctuation-normalized characters of the
\* prompt from call.start on, none of them inside a directive span, and the
\* fragment is bounded by a comma, a directive span or an end of the prompt.
LiteralFragment(call) ==
    LET n == Len(call.text)
        s == call.start
    IN  /\ s >= 0 /\ s + n <= Len(call.prompt)
        /\ \A i \in 1..n :
              /\ call.text[i] = PunctuationMap(call.prompt[s + i])
              /\ call.text[i] # ","
              /\ ~InDirective(call.prompt, s + i)
        /\ \/ s = 0
           \/ PunctuationMap(call.prompt[s]) = ","
           \/ InDirective(call.prompt, s)
        /\ \/ s + n = Len(call.prompt)
           \/ PunctuationMap(call.prompt[s + n + 1]) = ","
           \/ InDirective(call.prompt, s + n + 1)

\* C2: no text of a directive span reaches transfer or the translator: every
\* argument of transfer is a comma-delimited fragment of literal text outside
\* all directive spans, and the translator is given only arguments of transfer.
C2_DirectivesNeverTranslated ==
    Ran =>
        /\ \A i \in 1..Len(Transfers) : LiteralFragment(Transfers[i])
        /\ \A i \in 1..Len(obs.run.translations) :
              \E j \in 1..Len(Transfers) :
                  /\ Transfers[j].invoked
                  /\ Transfers[j].text = obs.run.translations[i].text

\* C2 witness: a prompt with a directive span and a stray bracket outside it,
\* the fragment holding the stray bracket given to transfer.
C2_Witness ==
    /\ Ran /\ phase = "done"
    /\ DirectiveSpans(Originals[1]) # {}
    /\ \E i \in 1..Len(Transfers) :
          \E k \in 1..Len(Transfers[i].text) : Transfers[i].text[k] \in {"<", ">"}

\* C3 (as claimed): when original and translated text have the same number of
\* runs, the output is the tightened translated text with its k-th run replaced
\* by the original's k-th run, for every k.
C3_RunsRestored ==
    (obs.op = "post_process_prompt" /\ obs.ret.err = "none"
        /\ RunCount(obs.original) = RunCount(obs.translated)) =>
        obs.ret.text =
            Spliced(obs.original, remove_unnecessary_spaces(obs.translated), 1, 0)

\* the slots of one loop that entered TRANSLATING
EnteredOf(kind) == {i \in 1..Len(EnteredLog) : EnteredLog[i].kind = kind}

\* C4 (as claimed): each distinct prompt string enters TRANSLATING at most once,
\* wherever it occurs in the batch, and all slots of one string hold one text.
C4_EachStringOnce ==
    Ran =>
        /\ \A i, j \in 1..Len(EnteredLog) :
              (EnteredLog[i].kind = EnteredLog[j].kind
                  /\ EnteredLog[i].prompt = EnteredLog[j].prompt) => i = j
        /\ phase = "done" =>
              \A a, b \in 1..Len(Originals) :
                  Originals[a] = Originals[b] => p.all_prompts[a] = p.all_prompts[b]

\* the slots of one loop follow the memo: a slot enters TRANSLATING only if its
\* prompt differs from the slot before it (the first from the empty string),
\* no slot enters twice, and a slot equal to the one before it holds its text
MemoFollowed(kind, originals, outputs) ==
    /\ \A i \in EnteredOf(kind) :
          /\ EnteredLog[i].slot \in 1..Len(originals)
          /\ EnteredLog[i].prompt = originals[EnteredLog[i].slot]
          /\ EnteredLog[i].prompt #
                 (IF EnteredLog[i].slot = 1 THEN Empty
                  ELSE originals[EnteredLog[i].slot - 1])
    /\ \A i, j \in EnteredOf(kind) : EnteredLog[i].slot = EnteredLog[j].slot => i = j
    /\ phase = "done" =>
          /\ Len(outputs) = Len(originals)
          /\ \A k \in 2..Len(originals) :
                originals[k] = originals[k - 1] => outputs[k] = outputs[k - 1]

\* C4 (amended): each run of adjacent identical prompts enters TRANSLATING at
\* most once and its later slots hold the memoized text; in both loops.
C4_AdjacentRunOnce ==
    Ran =>
        /\ MemoFollowed("prompt", Originals, p.all_prompts)
        /\ NegativeDone =>
              MemoFollowed("negative", NegativeOriginals, p.all_negative_prompts)
        /\ ~NegativeDone => EnteredOf("negative") = {}

\* C4 witness: a batch whose second slot repeats the first, translated once by
\* the translator.
C4_Witness ==
    /\ Ran /\ phase = "done"
    /\ Len(Originals) >= 2
    /\ Originals[2] = Originals[1]
    /\ Cardinality(EnteredOf("prompt")) = 1
    /\ Len(obs.run.translations) >= 1
    /\ p.all_prompts[2] = p.all_prompts[1]

C6_NeverAborts ==
    (Ran /\ obs.ln_code \in supported_languages) => phase = "done"

\* C7 (as claimed): when the numbers of runs differ, the output is the
\* translated text with only the space tightening applied.
C7_MismatchLeavesText ==
    (obs.op = "post_process_prompt" /\ obs.ret.err = "none"
        /\ RunCount(obs.original) # RunCount(obs.translated)) =>
        obs.ret.text = remove_unnecessary_spaces(obs.translated)

\* C8: a fragment that is a key of the cache is answered from the cache and the
\* translator is not called for it, whatever the source language; the
\* translator is called exactly for the fragments that are no key.
C8_CachePrecedence ==
    Ran =>
        /\ \A i \in 1..Len(Transfers) :
              IF Transfers[i].text \in DOMAIN csv
              THEN /\ ~Transfers[i].invoked
                   /\ Transfers[i].raised = "none"
                   /\ Transfers[i].ret = csv[Transfers[i].text]
              ELSE Transfers[i].invoked
        /\ Len(obs.run.translations)
              = Cardinality({i \in 1..Len(Transfers) : Transfers[i].invoked})

\* C8 witness: a cache hit under an unsupported source language, the batch
\* completed with the cached text.
C8_Witness ==
    /\ Ran /\ phase = "done"
    /\ obs.ln_code \notin supported_languages
    /\ \E i \in 1..Len(Transfers) :
          /\ Transfers[i].text \in DOMAIN csv
          /\ p.all_prompts[1] = csv[Transfers[i].text]

\* C9 (as claimed): extract_plus_positions lists every maximal run of "+",
\* left to right, as [start, end, length].
C9_AllRunsListed ==
    (obs.op = "extract_plus_positions" /\ obs.ret.err = "none") =>
        obs.ret.positions = RunList(obs.text)

\* some pair of aligned runs differs in length
AlignedLengthsDiffer(original, text) ==
    \E k \in 1..RunCount(text) :
        KthRun(original, k)[2] - KthRun(original, k)[1]
            # KthRun(text, k)[2] - KthRun(text, k)[1]

\* C10 (as claimed): a diagnostic is printed whenever the numbers of runs
\* differ and whenever two aligned runs differ in length.
C10_AnomaliesDiagnosed ==
    (obs.op = "post_process_prompt" /\ obs.ret.err = "none") =>
        /\ RunCount(obs.original) # RunCount(obs.translated) => obs.ret.diags >= 1
        /\ (RunCount(obs.original) = RunCount(obs.translated)
               /\ AlignedLengthsDiffer(obs.original,
                                       remove_unnecessary_spaces(obs.translated)))
              => obs.ret.diags >= 1

\* C11 (as claimed): during one call of process translations.csv is read at
\* most once, and every fragment is resolved against that one table.
C11_CacheReadOnce ==
    Ran =>
        /\ obs.run.loads <= 1
        /\ \A i \in 1..Len(Transfers) :
              Transfers[i].text \in DOMAIN csv =>
                  Transfers[i].ret = csv[Transfers[i].text]

\* the call of process ended with an exception
Failed == Ran /\ phase \in {"ValueError", "IndexError"}

\* C12: when process ends with an exception, p.prompt, p.prompt_for_display,
\* p.all_prompts, p.negative_prompt and p.all_negative_prompts are what they
\* were before the call, also when the exception comes from the negative
\* prompts after every main prompt was translated.
C12_NoPartialSubstitution ==
    Failed =>
        /\ p.prompt = obs.request.prompt
        /\ p.prompt_for_display = obs.request.prompt_for_display
        /\ p.all_prompts = obs.request.all_prompts
        /\ p.negative_prompt = obs.request.negative_prompt
        /\ p.all_negative_prompts = obs.request.all_negative_prompts

\* C12 witness: the main loop is through, its first prompt translated to a
\* different text by the translator, and then a negative prompt raised.
C12_Witness ==
    /\ Failed /\ NegativeDone
    /\ \E i \in 1..Len(EnteredLog) : EnteredLog[i].kind = "negative"
    /\ \E i \in 1..Len(EnteredLog) : EnteredLog[i].kind = "prompt"
    /\ Len(Transfers) >= 2
    /\ Transfers[1].prompt = Originals[1]
    /\ Transfers[1].invoked
    /\ Transfers[1].raised = "none"
    /\ Transfers[1].ret # Originals[1]
    /\ p = obs.request


===========================================================================
